---- MODULE Spec2Model ----
(***************************************************************************)
(* Model of scripts/generate_spx_daily.py: the indicator functions the     *)
(* claims are about (vol_regime, term_state, consec, is_opex, rsi) as      *)
(* operators, and build() as a step machine from the first download to the *)
(* final report.                                                           *)
(*                                                                         *)
(* Floating point values are rationals [n, d] with d >= 0, read as n/d.    *)
(* d = 0 is IEEE's special case: n = 0 is NaN (0/0), n # 0 is +-inf.       *)
(* Volatility closes are kept in tenths (15.0 is 150).  Dates are day      *)
(* numbers counted from 1970-01-01.                                        *)
(***************************************************************************)
EXTENDS Integers, Sequences, FiniteSets, TLC

VARIABLES
    pc,        \* position of build(): see BuildPcs
    start,     \* build's start argument, a day number
    output,    \* build's output argument, a path as a sequence of components
    padFill,   \* whether this pandas' pct_change() forward-fills gaps first
    raw,       \* what yf.download returned per ticker: "pending" or a frame
    spx, vix, vix9d, vix3m,   \* build's local frames ("unset" before assignment)
    df,        \* build's local table: a sequence of rows, "unset" before
    file,      \* the output file: "none", or the rows written to it
    err,       \* the exception that ended build, "none" otherwise
    fn,        \* library harness: the indicator applied ("none" before)
    arg,       \* library harness: the indicator's input
    out        \* library harness: the indicator's output

vars == <<pc, start, output, padFill, raw, spx, vix, vix9d, vix3m, df, file, err,
          fn, arg, out>>

buildVars == <<pc, start, output, padFill, raw, spx, vix, vix9d, vix3m, df, file, err>>

libVars == <<fn, arg, out>>

-----------------------------------------------------------------------------
(* Floating point *)

NaN == [n |-> 0, d |-> 0]

Num(x) == [n |-> x, d |-> 1]

IsNaN(x) == x.n = 0 /\ x.d = 0

\* a - b
Sub(a, b) ==
    IF IsNaN(a) \/ IsNaN(b) THEN NaN
    ELSE [n |-> a.n * b.d - b.n * a.d, d |-> a.d * b.d]

\* a / b; x/0 is +-inf, 0/0 is NaN, never an exception (numpy floats)
Div(a, b) ==
    IF IsNaN(a) \/ IsNaN(b) THEN NaN
    ELSE IF b.n < 0 THEN [n |-> -(a.n * b.d), d |-> a.d * (-b.n)]
    ELSE [n |-> a.n * b.d, d |-> a.d * b.n]

\* a * 100
Mul100(a) == [n |-> 100 * a.n, d |-> a.d]

\* a > b, a < b, a <= b; every comparison with NaN is False
Gt(a, b) == ~IsNaN(a) /\ ~IsNaN(b) /\ a.n * b.d > b.n * a.d

Lt(a, b) == ~IsNaN(a) /\ ~IsNaN(b) /\ a.n * b.d < b.n * a.d

Le(a, b) == ~IsNaN(a) /\ ~IsNaN(b) /\ a.n * b.d <= b.n * a.d

-----------------------------------------------------------------------------
(* Calendar: datetime's proleptic Gregorian calendar on day numbers *)

\* Timestamp.weekday(): Monday is 0; 1970-01-01 was a Thursday
Weekday(dt) == (dt + 3) % 7

\* the civil date (year, month, day) of a day number
Civil(dt) ==
    LET z   == dt + 719468
        era == z \div 146097
        doe == z - era * 146097
        yoe == (doe - doe \div 1460 + doe \div 36524 - doe \div 146096) \div 365
        doy == doe - (365 * yoe + yoe \div 4 - yoe \div 100)
        mp  == (5 * doy + 2) \div 153
        m   == IF mp < 10 THEN mp + 3 ELSE mp - 9
    IN  [year  |-> yoe + era * 400 + (IF m <= 2 THEN 1 ELSE 0),
         month |-> m,
         day   |-> doy - (153 * mp + 2) \div 5 + 1]

\* the day number of a civil date: pd.Timestamp("YYYY-MM-DD")
Timestamp(y, m, d) ==
    LET yy  == IF m <= 2 THEN y - 1 ELSE y
        era == yy \div 400
        yoe == yy - era * 400
        mp  == IF m > 2 THEN m - 3 ELSE m + 9
        doy == (153 * mp + 2) \div 5 + d - 1
        doe == yoe * 365 + yoe \div 4 - yoe \div 100 + doy
    IN  era * 146097 + doe - 719468

\* dt.replace(day=1)
ReplaceDay1(dt) == dt - (Civil(dt).day - 1)

-----------------------------------------------------------------------------
(* Indicator library *)

\* pd.cut's default right=True: each bin is (lo, hi], closed on the right
CutBin(v, bins) ==
    IF IsNaN(v) THEN 0
    ELSE IF \E k \in 1..Len(bins) : Le(v, Num(bins[k]))
         THEN CHOOSE k \in 1..Len(bins) :
                 /\ Le(v, Num(bins[k]))
                 /\ \A j \in 1..(k - 1) : ~Le(v, Num(bins[j]))
         ELSE Len(bins) + 1

\* the finite breakpoints of vol_regime's bins, in tenths: 12, 15, 20, 25, 35
VolBins == <<120, 150, 200, 250, 350>>

\* vol_regime: labels 1..6 as nullable Int64; a NaN close has no bin and is <NA>
vol_regime(v) ==
    [i \in DOMAIN v |->
        LET b == CutBin(v[i], VolBins) IN IF b = 0 THEN NaN ELSE Num(b)]

\* a contango test that leaves a ratio of exactly 1 out
TermStateStrict(r9d, rvx3m) ==
    [i \in DOMAIN r9d |->
        IF Gt(r9d[i], Num(1)) /\ Gt(rvx3m[i], Num(1)) THEN -1
        ELSE IF Lt(r9d[i], Num(1)) /\ Lt(rvx3m[i], Num(1)) THEN 1
        ELSE 0]

\* term_state: a Series of 0, then 1 where both ratios are <= 1, then -1 where
\* both are > 1 (a comparison with NaN is False, so the 0 stays)
term_state(r9d, rvx3m) ==
    [i \in DOMAIN r9d |->
        IF Gt(r9d[i], Num(1)) /\ Gt(rvx3m[i], Num(1)) THEN -1
        ELSE IF Le(r9d[i], Num(1)) /\ Le(rvx3m[i], Num(1)) THEN 1
        ELSE 0]

Max(a, b) == IF a >= b THEN a ELSE b

Min(a, b) == IF a <= b THEN a ELSE b

\* a positive return that only adds one to the streak, whatever its sign
ConsecStepNoRestart(streak, r) ==
    IF IsNaN(r) THEN 0
    ELSE IF Gt(r, Num(0)) THEN streak + 1
    ELSE IF Lt(r, Num(0)) THEN Min(streak - 1, -1)
    ELSE 0

\* a zero return that leaves the streak as it was
ConsecStepKeepOnZero(streak, r) ==
    IF IsNaN(r) THEN 0
    ELSE IF Gt(r, Num(0)) THEN Max(streak + 1, 1)
    ELSE IF Lt(r, Num(0)) THEN Min(streak - 1, -1)
    ELSE streak

\* one iteration of consec's loop: the new streak
ConsecStep(streak, r) ==
    IF IsNaN(r) THEN 0
    ELSE IF Gt(r, Num(0)) THEN Max(streak + 1, 1)
    ELSE IF Lt(r, Num(0)) THEN Min(streak - 1, -1)
    ELSE 0

RECURSIVE ConsecLoop(_, _, _)
\* consec's loop from position i on, res and streak as they are there
ConsecLoop(ret, res, streak) ==
    IF Len(res) = Len(ret) THEN res
    ELSE LET s == ConsecStep(streak, ret[Len(res) + 1])
         IN  ConsecLoop(ret, Append(res, s), s)

consec(ret) == ConsecLoop(ret, <<>>, 0)

\* the date is its month's first Friday plus one week
IsSecondFriday(dt) ==
    LET f  == ReplaceDay1(dt)
        ff == f + ((4 - Weekday(f)) % 7)
    IN  dt = ff + 7

\* is_opex's loop body: dt is the first Friday of its month plus two weeks
IsThirdFriday(dt) ==
    LET f  == ReplaceDay1(dt)
        ff == f + ((4 - Weekday(f)) % 7)
        tf == ff + 14
    IN  dt = tf

is_opex(idx) == [i \in DOMAIN idx |-> IF IsThirdFriday(idx[i]) THEN 1 ELSE 0]

\* s.diff(): NaN on the first row, then the difference to the previous row
Diff(s) == [i \in DOMAIN s |-> IF i = 1 THEN NaN ELSE Sub(s[i], s[i - 1])]

\* d.clip(lower=0) and -d.clip(upper=0): the gain and the loss of each row
ClipLower0(d) == [i \in DOMAIN d |-> IF Lt(d[i], Num(0)) THEN Num(0) ELSE d[i]]

NegClipUpper0(d) ==
    [i \in DOMAIN d |-> IF Gt(d[i], Num(0)) THEN Num(0) ELSE Sub(Num(0), d[i])]

\* rsi's default period n
RsiPeriod == 14

(***************************************************************************)
(* x.ewm(com=com, min_periods=mp).mean() of a series without negative      *)
(* values, up to its sign.  Row t is NaN until mp non-NaN observations     *)
(* exist; after that it is the average of the observations so far with the *)
(* weights (com/(com+1))^k, all positive for com > 0, so it is 0 when      *)
(* every observation so far is 0 and positive otherwise.  The magnitude    *)
(* (a ratio of sums of powers of 13 and 14) is not represented.            *)
(***************************************************************************)
EwmMean(x, com, mp) ==
    [t \in DOMAIN x |->
        IF Cardinality({i \in 1..t : ~IsNaN(x[i])}) < mp THEN "nan"
        ELSE IF com > 0 /\ \E i \in 1..t : Gt(x[i], Num(0)) THEN "pos"
        ELSE "zero"]

\* l.replace(0, np.nan)
Replace0ByNaN(l) == [t \in DOMAIN l |-> IF l[t] = "zero" THEN "nan" ELSE l[t]]

\* g / l on signs: x/0 is inf for x > 0 and NaN for x = 0
DivSign(g, l) ==
    IF g = "nan" \/ l = "nan" THEN "nan"
    ELSE IF l = "zero" THEN (IF g = "zero" THEN "nan" ELSE "inf")
    ELSE g

\* 100 - 100/(1 + rs): 0 for rs = 0, 100 for rs = inf, strictly between otherwise
RsiOfRs(rs) ==
    CASE rs = "nan"  -> "nan"
      [] rs = "zero" -> "0"
      [] rs = "inf"  -> "100"
      [] rs = "pos"  -> "between"

rsi(s, n) ==
    LET d == Diff(s)
        g == EwmMean(ClipLower0(d), n - 1, n)
        l == EwmMean(NegClipUpper0(d), n - 1, n)
        lr == Replace0ByNaN(l)
    IN  [t \in DOMAIN s |-> RsiOfRs(DivSign(g[t], lr[t]))]

-----------------------------------------------------------------------------
(* build() before it is called, and the library harness before a call *)

BuildIdle ==
    /\ pc = "idle" /\ start = 0 /\ output = <<>> /\ padFill = FALSE
    /\ raw = <<>> /\ spx = "unset" /\ vix = "unset" /\ vix9d = "unset"
    /\ vix3m = "unset" /\ df = "unset" /\ file = "none" /\ err = "none"

\* all sequences over S of a length in lo..hi
SeqsOf(S, lo, hi) == UNION {[1..k -> S] : k \in lo..hi}

-----------------------------------------------------------------------------
(* consec applied to a bounded return series *)

MaxLen == 5

RetVals == {NaN, Num(-2), Num(-1), Num(0), Num(1)}

InitConsec ==
    /\ BuildIdle
    /\ fn = "none" /\ out = <<>>
    /\ arg \in SeqsOf(RetVals, 1, MaxLen)

CallConsec ==
    /\ fn = "none"
    /\ fn' = "consec"
    /\ out' = consec(arg)
    /\ UNCHANGED <<arg, buildVars>>

SpecConsec == InitConsec /\ [][CallConsec]_vars

\* the sign of a return: 1, -1, or 0 for a zero or missing return
RetSign(r) == IF Gt(r, Num(0)) THEN 1 ELSE IF Lt(r, Num(0)) THEN -1 ELSE 0

\* C1 as claimed: the streak never goes from a negative value on one day to a
\* positive value on a later day, nor from positive to negative, without being
\* 0 on some day in between (so never on adjacent days).
C1_NoDirectSignFlip ==
    fn = "consec" =>
        \A i \in 1..Len(out) : \A j \in (i + 1)..Len(out) :
            (out[i] < 0 /\ out[j] > 0) \/ (out[i] > 0 /\ out[j] < 0)
                => \E k \in (i + 1)..(j - 1) : out[k] = 0

\* C1 as amended: the streak passes directly from a negative to a positive
\* value exactly when a negative-return day is immediately followed by a
\* positive-return day, and then restarts at exactly 1; symmetrically it
\* passes from positive to negative exactly when a positive-return day is
\* followed by a negative-return day, restarting at exactly -1.
C1_FlipRestartsAtOne ==
    fn = "consec" =>
        \A i \in 1..(Len(out) - 1) :
            /\ (out[i] < 0 /\ out[i + 1] > 0)
                   <=> (RetSign(arg[i]) = -1 /\ RetSign(arg[i + 1]) = 1)
            /\ (out[i] < 0 /\ out[i + 1] > 0) => out[i + 1] = 1
            /\ (out[i] > 0 /\ out[i + 1] < 0)
                   <=> (RetSign(arg[i]) = 1 /\ RetSign(arg[i + 1]) = -1)
            /\ (out[i] > 0 /\ out[i + 1] < 0) => out[i + 1] = -1

\* a losing streak of two days followed at once by a winning day
C1_Witness ==
    /\ fn = "consec"
    /\ \E i \in 2..(Len(out) - 1) : out[i] = -2 /\ out[i + 1] = 1

\* C9: the streak is 0 exactly on a zero or missing return; on a positive
\* return it is previous+1 if the previous streak was positive and 1
\* otherwise; on a negative return it is previous-1 if the previous streak
\* was negative and -1 otherwise (the streak before the first day is 0).
C9_StreakRule ==
    fn = "consec" =>
        /\ Len(out) = Len(arg)
        /\ \A i \in 1..Len(out) :
              LET prev == IF i = 1 THEN 0 ELSE out[i - 1] IN
              /\ out[i] = 0 <=> RetSign(arg[i]) = 0
              /\ RetSign(arg[i]) = 1 =>
                    /\ out[i] = (IF prev > 0 THEN prev + 1 ELSE 1)
                    /\ out[i] >= 1
              /\ RetSign(arg[i]) = -1 =>
                    /\ out[i] = (IF prev < 0 THEN prev - 1 ELSE -1)
                    /\ out[i] <= -1

\* a series holding an extended winning streak, a losing day right after a
\* winning one, a missing day that resets a running streak, and a zero day
C9_Witness ==
    /\ fn = "consec"
    /\ \E i \in 1..Len(out) : out[i] = 2
    /\ \E i \in 2..Len(out) : out[i - 1] > 0 /\ out[i] = -1
    /\ \E i \in 2..Len(arg) : IsNaN(arg[i]) /\ out[i - 1] # 0 /\ out[i] = 0
    /\ \E i \in 1..Len(arg) : arg[i] = Num(0) /\ out[i] = 0

-----------------------------------------------------------------------------
(* is_opex applied to a bounded index *)

OpexFirstYear == 2000

OpexLastYear == 2027

\* the largest step between two dates of an index
MaxGap == 7

OpexDays == Timestamp(OpexFirstYear, 1, 1)..Timestamp(OpexLastYear, 12, 31)

InitOpex ==
    /\ BuildIdle
    /\ fn = "none" /\ out = <<>>
    /\ \E d \in OpexDays :
          \/ arg = <<d>>
          \/ \E g \in 1..MaxGap : arg = <<d, d + g>>

CallIsOpex ==
    /\ fn = "none"
    /\ fn' = "is_opex"
    /\ out' = is_opex(arg)
    /\ UNCHANGED <<arg, buildVars>>

SpecOpex == InitOpex /\ [][CallIsOpex]_vars

\* C10: is_opex is 1 on a date exactly when the date is a Friday whose day of
\* the month is in 15..21 (the third Friday), and 0 otherwise, whatever else
\* the index holds.
C10_ThirdFriday ==
    fn = "is_opex" =>
        /\ Len(out) = Len(arg)
        /\ \A i \in 1..Len(arg) :
              /\ out[i] \in {0, 1}
              /\ out[i] = 1 <=> (Weekday(arg[i]) = 4 /\ Civil(arg[i]).day \in 15..21)

\* 2024-01-12 and 2024-01-19 in one index: the second Friday is 0, the third 1
C10_Witness ==
    /\ fn = "is_opex"
    /\ arg = <<Timestamp(2024, 1, 12), Timestamp(2024, 1, 19)>>
    /\ out = <<0, 1>>

-----------------------------------------------------------------------------
(* vol_regime applied to a bounded series of closes, in tenths *)

VolLen == 2

VolVals ==
    {NaN, Num(0), Num(400)}
        \cup {Num(VolBins[k] + e) : k \in 1..Len(VolBins), e \in {-1, 0, 1}}

InitVol ==
    /\ BuildIdle
    /\ fn = "none" /\ out = <<>>
    /\ arg \in SeqsOf(VolVals, 1, VolLen)

CallVolRegime ==
    /\ fn = "none"
    /\ fn' = "vol_regime"
    /\ out' = vol_regime(arg)
    /\ UNCHANGED <<arg, buildVars>>

SpecVol == InitVol /\ [][CallVolRegime]_vars

\* the bucket the claim gives a close v (in tenths): a close equal to a
\* breakpoint is in the higher bucket
ClaimedBucket(v) ==
    IF IsNaN(v) THEN NaN
    ELSE IF Lt(v, Num(120)) THEN Num(1)
    ELSE IF Lt(v, Num(150)) THEN Num(2)
    ELSE IF Lt(v, Num(200)) THEN Num(3)
    ELSE IF Lt(v, Num(250)) THEN Num(4)
    ELSE IF Lt(v, Num(350)) THEN Num(5)
    ELSE Num(6)

\* C5: v < 12 -> 1, 12 <= v < 15 -> 2, 15 <= v < 20 -> 3, 20 <= v < 25 -> 4,
\* 25 <= v < 35 -> 5, above -> 6 (15.0 -> 3), and a missing v has no bucket.
C5_BreakpointInHigherBucket ==
    fn = "vol_regime" =>
        \A i \in 1..Len(arg) : out[i] = ClaimedBucket(arg[i])

-----------------------------------------------------------------------------
(* term_state applied to bounded series of the two ratios *)

TsLen == 2

\* NaN, 0, 1/2, 1, 2 and inf
RatioVals == {NaN, Num(0), Div(Num(1), Num(2)), Num(1), Num(2), Div(Num(1), Num(0))}

InitTermState ==
    /\ BuildIdle
    /\ fn = "none" /\ out = <<>>
    /\ \E k \in 1..TsLen :
          arg \in [r9d : [1..k -> RatioVals], rvx3m : [1..k -> RatioVals]]

CallTermState ==
    /\ fn = "none"
    /\ fn' = "term_state"
    /\ out' = term_state(arg.r9d, arg.rvx3m)
    /\ UNCHANGED <<arg, buildVars>>

SpecTermState == InitTermState /\ [][CallTermState]_vars

\* C7: the state is in {-1, 0, 1}: 1 exactly when both ratios are present and
\* <= 1, -1 exactly when both are present and > 1, 0 in every other case.
C7_TermState ==
    fn = "term_state" =>
        \A i \in 1..Len(arg.r9d) :
            LET a == arg.r9d[i]
                b == arg.rvx3m[i]
                present == ~IsNaN(a) /\ ~IsNaN(b)
            IN  /\ out[i] \in {-1, 0, 1}
                /\ out[i] = 1 <=> (present /\ Le(a, Num(1)) /\ Le(b, Num(1)))
                /\ out[i] = -1 <=> (present /\ ~Le(a, Num(1)) /\ ~Le(b, Num(1)))
                /\ (~present \/ (Le(a, Num(1)) /\ ~Le(b, Num(1)))
                             \/ (~Le(a, Num(1)) /\ Le(b, Num(1)))) => out[i] = 0

\* one series holding a contango day and a missing-ratio day, or a
\* backwardation day and a mixed day
C7_Witness ==
    /\ fn = "term_state"
    /\ Len(out) = 2
    /\ \/ out[1] = 1 /\ IsNaN(arg.r9d[2]) /\ out[2] = 0
       \/ out[1] = -1 /\ Le(arg.r9d[2], Num(1)) /\ Gt(arg.rvx3m[2], Num(1))
             /\ out[2] = 0

-----------------------------------------------------------------------------
(* rsi applied to a bounded series of closes *)

RsiLen == 16

RsiCloses == {Num(1), Num(2)}

InitRsi ==
    /\ BuildIdle
    /\ fn = "none" /\ out = <<>>
    /\ arg \in SeqsOf(RsiCloses, 1, RsiLen)

CallRsi ==
    /\ fn = "none"
    /\ fn' = "rsi"
    /\ out' = rsi(arg, RsiPeriod)
    /\ UNCHANGED <<arg, buildVars>>

SpecRsi == InitRsi /\ [][CallRsi]_vars

\* C6: once 14 changes have been observed, rsi is 100 on every date up to
\* which the series has no loss (the smoothed average loss is zero).  Stated
\* for the dates with a gain so far, where gain/loss is x/0 and not 0/0.
C6_ZeroLossGives100 ==
    fn = "rsi" =>
        \A t \in 1..Len(arg) :
            (/\ t > RsiPeriod
             /\ \A i \in 2..t : ~Lt(arg[i], arg[i - 1])
             /\ \E i \in 2..t : Gt(arg[i], arg[i - 1]))
                => out[t] = "100"

-----------------------------------------------------------------------------
(* build(): its inputs and the market behind yf.download *)

TICKER_SPX == "^GSPC"

TICKER_VIX == "^VIX"

TICKER_VIX9D == "^VIX9D"

TICKER_VIX3M == "^VIX3M"

Tickers == {TICKER_SPX, TICKER_VIX, TICKER_VIX9D, TICKER_VIX3M}

\* the days of history build asks for before start
WarmupDays == 400

\* the market: SpanDays calendar days after 2024-01-17, weekends closed
SpanDays == 5

FirstDay == Timestamp(2024, 1, 17)

TradingDays == {d \in FirstDay..(FirstDay + SpanDays) : Weekday(d) < 5}

\* datetime.today()
Today == FirstDay + SpanDays

\* the closes an index bar can have
SpxCloses == {1, 2}

\* start: before all history, inside it, after it, and so late that the
\* 400-day window opens inside it
Starts ==
    {FirstDay - 30, FirstDay + 1, FirstDay + SpanDays + 1, FirstDay + WarmupDays + 1}

\* output: a path with a directory part, and a bare file name
Outputs == {<<"data", "spx_daily.csv">>, <<"spx_daily.csv">>}

\* the bar a volatility index had on a day, in tenths
VolBar(ticker, d) ==
    CASE ticker = TICKER_VIX   -> [Open |-> Num(140 + (d % 3)), Close |-> Num(150)]
      [] ticker = TICKER_VIX9D -> [Open |-> Num(130), Close |-> Num(140 + 10 * (d % 3))]
      [] ticker = TICKER_VIX3M -> [Open |-> Num(170), Close |-> Num(140 + 10 * (d % 2))]

\* the least element of a non-empty set of days
MinOf(S) == CHOOSE d \in S : \A e \in S : d <= e

\* a set of days without its second day (a gap inside the series)
DropSecond(S) ==
    IF Cardinality(S) < 2 THEN S ELSE S \ {MinOf(S \ {MinOf(S)})}

\* the frames yf.download(ticker, start=s, end=e) can return: rows only for
\* trading days in [s, e); any subset of them for the index; for a volatility
\* index nothing, every day, or every day but the second
YfDownload(ticker, s, e) ==
    LET days == {d \in TradingDays : s <= d /\ d < e}
    IN  IF ticker = TICKER_SPX
        THEN UNION {[D -> {[Open |-> Num(1), Close |-> Num(c)] : c \in SpxCloses}] :
                        D \in SUBSET days}
        ELSE {[d \in D |-> VolBar(ticker, d)] :
                 D \in {{}, days, DropSecond(days)}}

-----------------------------------------------------------------------------
(* build(): the helpers of its body *)

\* a download that hands an empty frame on instead of raising
DownloadNeverRaises(rows) == FALSE

\* download's check of what yf.download returned: an empty frame raises
DownloadRaises(rows) == DOMAIN rows = {}

\* spx.index: the index's days in increasing order
RECURSIVE SortedDays(_)
SortedDays(S) ==
    IF S = {} THEN <<>> ELSE <<MinOf(S)>> \o SortedDays(S \ {MinOf(S)})

\* a substitute frame filled with zeros instead of missing values
AllZeroFrame(days) == [d \in days |-> [Open |-> Num(0), Close |-> Num(0)]]

\* pd.DataFrame(index=spx.index, columns=["Open","Close"], dtype=float)
AllMissingFrame(days) == [d \in days |-> [Open |-> NaN, Close |-> NaN]]

\* frame.reindex(idx)[col]: the column on idx, NaN where the frame has no row
Reindex(frame, idx, col) ==
    [i \in DOMAIN idx |->
        IF idx[i] \in DOMAIN frame THEN frame[idx[i]][col] ELSE NaN]

\* s.shift(1)
Shift1(s) == [i \in DOMAIN s |-> IF i = 1 THEN NaN ELSE s[i - 1]]

RECURSIVE Ffill(_)
\* the forward fill pct_change applies first where pandas still pads
Ffill(s) ==
    IF Len(s) <= 1 THEN s
    ELSE LET h == Ffill(SubSeq(s, 1, Len(s) - 1))
         IN  Append(h, IF IsNaN(s[Len(s)]) THEN h[Len(h)] ELSE s[Len(s)])

\* s.pct_change() * 100
PctChange100(s, pad) ==
    LET f == IF pad THEN Ffill(s) ELSE s
    IN  [i \in DOMAIN s |->
            IF i = 1 THEN NaN ELSE Mul100(Div(Sub(f[i], f[i - 1]), f[i - 1]))]

\* lines 98-147: the table over the whole downloaded index, one row per day
\* (the columns the claims read; the cell of the integer state is a number)
Table(spxF, vixF, vix9dF, vix3mF, pad) ==
    LET idx     == SortedDays(DOMAIN spxF)
        close   == Reindex(spxF, idx, "Close")
        open    == Reindex(spxF, idx, "Open")
        prior   == Shift1(close)
        total   == [i \in DOMAIN idx |->
                       Mul100(Div(Sub(close[i], prior[i]), prior[i]))]
        streak  == consec(total)
        rsi14   == rsi(close, RsiPeriod)
        opex    == is_opex(idx)
        vixO    == Reindex(vixF, idx, "Open")
        vixC    == Reindex(vixF, idx, "Close")
        v9O     == Reindex(vix9dF, idx, "Open")
        v9C     == Reindex(vix9dF, idx, "Close")
        v3O     == Reindex(vix3mF, idx, "Open")
        v3C     == Reindex(vix3mF, idx, "Close")
        v9Chg   == PctChange100(v9C, pad)
        v3Chg   == PctChange100(v3C, pad)
        r9d     == [i \in DOMAIN idx |-> Div(v9C[i], vixC[i])]
        rvx3m   == [i \in DOMAIN idx |-> Div(vixC[i], v3C[i])]
        regime  == vol_regime(vixC)
        tstate  == term_state(r9d, rvx3m)
    IN  [i \in DOMAIN idx |->
            [date                 |-> idx[i],
             Prior_Close          |-> prior[i],
             open                 |-> open[i],
             close                |-> close[i],
             Total_Return_Pct     |-> total[i],
             Consecutive_Days     |-> streak[i],
             RSI_14               |-> rsi14[i],
             Is_Opex              |-> opex[i],
             VIX_Open             |-> vixO[i],
             VIX_Close            |-> vixC[i],
             Vol_Regime           |-> regime[i],
             VIX9D_Open           |-> v9O[i],
             VIX9D_Close          |-> v9C[i],
             VIX9D_Change_Pct     |-> v9Chg[i],
             VIX3M_Open           |-> v3O[i],
             VIX3M_Close          |-> v3C[i],
             VIX3M_Change_Pct     |-> v3Chg[i],
             VIX9D_VIX_Ratio      |-> r9d[i],
             VIX_VIX3M_Ratio      |-> rvx3m[i],
             Term_Structure_State |-> Num(tstate[i])]]

\* a table cut before its first row: the shift then runs over the cut table
TrimThenShift(t, s) ==
    LET kept == SelectSeq(t, LAMBDA r : r.date >= s)
    IN  [i \in DOMAIN kept |->
            [kept[i] EXCEPT !.Prior_Close =
                 IF i = 1 THEN NaN ELSE kept[i - 1].close]]

\* line 149: df[df.index >= pd.Timestamp(start)]
Trim(t, s) == SelectSeq(t, LAMBDA r : r.date >= s)

\* os.path.dirname(output)
Dirname(path) == SubSeq(path, 1, Len(path) - 1)

\* os.makedirs(dir, exist_ok=True) raises FileNotFoundError on the empty path
MakedirsRaises(dir) == dir = <<>>

-----------------------------------------------------------------------------
(* build(): the run, one action per step *)

BuildPcs == {"spx", "vix", "vix9d", "vix3m", "assemble", "write", "report",
             "done", "aborted"}

\* ws and end of lines 86-87
WindowStart(s) == s - WarmupDays

WindowEnd == Today + 1

NoFile == [written |-> FALSE, rows |-> <<>>]

Init ==
    /\ pc = "spx"
    /\ start \in Starts
    /\ output \in Outputs
    /\ padFill \in BOOLEAN
    /\ raw = [t \in Tickers |-> [done |-> FALSE, rows |-> <<>>]]
    /\ spx = <<>> /\ vix = <<>> /\ vix9d = <<>> /\ vix3m = <<>>
    /\ df = <<>>
    /\ file = NoFile
    /\ err = "none"
    /\ fn = "none" /\ arg = <<>> /\ out = <<>>

\* line 89: spx = download(TICKER_SPX, ws, end); a raise ends build
DownloadSPX ==
    /\ pc = "spx"
    /\ \E rows \in YfDownload(TICKER_SPX, WindowStart(start), WindowEnd) :
          /\ raw' = [raw EXCEPT ![TICKER_SPX] = [done |-> TRUE, rows |-> rows]]
          /\ IF DownloadRaises(rows)
             THEN /\ pc' = "aborted"
                  /\ err' = "No data for ^GSPC"
                  /\ spx' = spx
             ELSE /\ pc' = "vix"
                  /\ err' = err
                  /\ spx' = rows
    /\ UNCHANGED <<start, output, padFill, vix, vix9d, vix3m, df, file, libVars>>

\* line 90: vix = download(TICKER_VIX, ws, end); a raise ends build
DownloadVIX ==
    /\ pc = "vix"
    /\ \E rows \in YfDownload(TICKER_VIX, WindowStart(start), WindowEnd) :
          /\ raw' = [raw EXCEPT ![TICKER_VIX] = [done |-> TRUE, rows |-> rows]]
          /\ IF DownloadRaises(rows)
             THEN /\ pc' = "aborted"
                  /\ err' = "No data for ^VIX"
                  /\ vix' = vix
             ELSE /\ pc' = "vix9d"
                  /\ err' = err
                  /\ vix' = rows
    /\ UNCHANGED <<start, output, padFill, spx, vix9d, vix3m, df, file, libVars>>

\* lines 91-93: try download(TICKER_VIX9D), except: an all-missing frame
DownloadVIX9D ==
    /\ pc = "vix9d"
    /\ \E rows \in YfDownload(TICKER_VIX9D, WindowStart(start), WindowEnd) :
          /\ raw' = [raw EXCEPT ![TICKER_VIX9D] = [done |-> TRUE, rows |-> rows]]
          /\ vix9d' = IF DownloadRaises(rows)
                      THEN AllMissingFrame(DOMAIN spx) ELSE rows
    /\ pc' = "vix3m"
    /\ UNCHANGED <<start, output, padFill, spx, vix, vix3m, df, file, err, libVars>>

\* lines 94-96: try download(TICKER_VIX3M), except: an all-missing frame
DownloadVIX3M ==
    /\ pc = "vix3m"
    /\ \E rows \in YfDownload(TICKER_VIX3M, WindowStart(start), WindowEnd) :
          /\ raw' = [raw EXCEPT ![TICKER_VIX3M] = [done |-> TRUE, rows |-> rows]]
          /\ vix3m' = IF DownloadRaises(rows)
                      THEN AllMissingFrame(DOMAIN spx) ELSE rows
    /\ pc' = "assemble"
    /\ UNCHANGED <<start, output, padFill, spx, vix, vix9d, df, file, err, libVars>>

\* lines 98-162: every column over the whole index, then the cut at start
Assemble ==
    /\ pc = "assemble"
    /\ df' = Trim(Table(spx, vix, vix9d, vix3m, padFill), start)
    /\ pc' = "write"
    /\ UNCHANGED <<start, output, padFill, raw, spx, vix, vix9d, vix3m, file, err,
                   libVars>>

\* lines 164-165: os.makedirs(dirname(output)), then df.to_csv(output)
WriteCsv ==
    /\ pc = "write"
    /\ IF MakedirsRaises(Dirname(output))
       THEN /\ pc' = "aborted"
            /\ err' = "FileNotFoundError"
            /\ file' = file
       ELSE /\ pc' = "report"
            /\ err' = err
            /\ file' = [written |-> TRUE, rows |-> df]
    /\ UNCHANGED <<start, output, padFill, raw, spx, vix, vix9d, vix3m, df, libVars>>

\* lines 166-171: the summary; df['date'].iloc[0] raises on a table without rows
Report ==
    /\ pc = "report"
    /\ IF Len(df) = 0
       THEN /\ pc' = "aborted"
            /\ err' = "IndexError"
       ELSE /\ pc' = "done"
            /\ err' = err
    /\ UNCHANGED <<start, output, padFill, raw, spx, vix, vix9d, vix3m, df, file,
                   libVars>>

Next ==
    \/ DownloadSPX
    \/ DownloadVIX
    \/ DownloadVIX9D
    \/ DownloadVIX3M
    \/ Assemble
    \/ WriteCsv
    \/ Report

Spec == Init /\ [][Next]_vars

-----------------------------------------------------------------------------
(* build(): the claims *)

Ended == pc \in {"done", "aborted"}

Failed(ticker) == raw[ticker].done /\ DOMAIN raw[ticker].rows = {}

Succeeded(ticker) == raw[ticker].done /\ DOMAIN raw[ticker].rows # {}

\* C2: a run ends either completed with the output file written, or aborted
\* with no output file written; none aborts after the file has been written.
C2_WrittenIffCompleted ==
    /\ pc = "done" => file.written
    /\ pc = "aborted" => ~file.written

\* C3: when the download of ^GSPC yields no rows, build is aborted by that
\* error and the write step is never reached: no table, no file.
C3_PrimaryFailureAborts ==
    Failed(TICKER_SPX) =>
        /\ pc = "aborted"
        /\ err = "No data for ^GSPC"
        /\ ~file.written
        /\ df = <<>>
        /\ \A t \in Tickers \ {TICKER_SPX} : ~raw[t].done

\* a run whose download window holds trading days, yet the ^GSPC download
\* came back empty and build aborted
C3_Witness ==
    /\ Failed(TICKER_SPX)
    /\ pc = "aborted"
    /\ \E d \in TradingDays : WindowStart(start) <= d /\ d < WindowEnd

\* only secondary sources failed: all four downloads made, ^GSPC and ^VIX
\* with rows, ^VIX9D or ^VIX3M without
SecondaryOnlyFailure ==
    /\ Succeeded(TICKER_SPX) /\ Succeeded(TICKER_VIX)
    /\ raw[TICKER_VIX9D].done /\ raw[TICKER_VIX3M].done
    /\ Failed(TICKER_VIX9D) \/ Failed(TICKER_VIX3M)

\* C4 as claimed: after a secondary-only failure build completes and writes
\* the output, and in every emitted row the columns of the failed series, the
\* ratios built on them and Term_Structure_State are missing, while the index
\* and VIX columns are populated.
C4_AllDerivedColumnsMissing ==
    SecondaryOnlyFailure =>
        /\ Ended => (pc = "done" /\ file.written /\ file.rows = df)
        /\ \A i \in 1..Len(df) :
              LET r == df[i] IN
              /\ Failed(TICKER_VIX9D) =>
                    /\ IsNaN(r.VIX9D_Open) /\ IsNaN(r.VIX9D_Close)
                    /\ IsNaN(r.VIX9D_Change_Pct) /\ IsNaN(r.VIX9D_VIX_Ratio)
              /\ Failed(TICKER_VIX3M) =>
                    /\ IsNaN(r.VIX3M_Open) /\ IsNaN(r.VIX3M_Close)
                    /\ IsNaN(r.VIX3M_Change_Pct) /\ IsNaN(r.VIX_VIX3M_Ratio)
              /\ IsNaN(r.Term_Structure_State)
              /\ ~IsNaN(r.open) /\ ~IsNaN(r.close)
              /\ ~IsNaN(r.VIX_Open) /\ ~IsNaN(r.VIX_Close) /\ ~IsNaN(r.Vol_Regime)

\* C4 as amended: after a secondary-only failure no download aborts build: it
\* assembles the table and reaches the write step, and what it writes is that
\* table.  In every row of the table the open, close and change columns of a
\* failed series and the ratio built on it are missing and
\* Term_Structure_State is 0, not missing; the index columns are populated in
\* every row, the VIX columns in every row whose date the VIX download covers.
C4_SecondaryFailureDegrades ==
    SecondaryOnlyFailure =>
        /\ pc \in {"assemble", "write", "report", "done", "aborted"}
        /\ pc = "aborted" => err \in {"FileNotFoundError", "IndexError"}
        /\ pc # "assemble" => Len(df) = Cardinality({d \in DOMAIN spx : d >= start})
        /\ file.written => file.rows = df
        /\ pc \in {"report", "done"} => file.written
        /\ \A i \in 1..Len(df) :
              LET r == df[i] IN
              /\ Failed(TICKER_VIX9D) =>
                    /\ IsNaN(r.VIX9D_Open) /\ IsNaN(r.VIX9D_Close)
                    /\ IsNaN(r.VIX9D_Change_Pct) /\ IsNaN(r.VIX9D_VIX_Ratio)
              /\ Failed(TICKER_VIX3M) =>
                    /\ IsNaN(r.VIX3M_Open) /\ IsNaN(r.VIX3M_Close)
                    /\ IsNaN(r.VIX3M_Change_Pct) /\ IsNaN(r.VIX_VIX3M_Ratio)
              /\ r.Term_Structure_State = Num(0)
              /\ ~IsNaN(r.open) /\ ~IsNaN(r.close)
              /\ r.date \in DOMAIN raw[TICKER_VIX].rows =>
                    /\ ~IsNaN(r.VIX_Open) /\ ~IsNaN(r.VIX_Close)
                    /\ ~IsNaN(r.Vol_Regime)
              /\ r.date \notin DOMAIN raw[TICKER_VIX].rows =>
                    /\ IsNaN(r.VIX_Open) /\ IsNaN(r.VIX_Close)
                    /\ IsNaN(r.Vol_Regime)

\* a completed run in which ^VIX9D failed and ^VIX3M did not, with two rows
\* or more written
C4_Witness ==
    /\ SecondaryOnlyFailure
    /\ Failed(TICKER_VIX9D) /\ Succeeded(TICKER_VIX3M)
    /\ pc = "done" /\ file.written
    /\ Len(file.rows) >= 2
    /\ \E i \in 1..Len(file.rows) : ~IsNaN(file.rows[i].VIX_VIX3M_Ratio)

\* C8 as claimed: in the written table every row but the first has the close
\* of the row before it as Prior_Close, and the first row's is missing.
C8_FirstPriorCloseMissing ==
    file.written =>
        \A i \in 1..Len(file.rows) :
            IF i = 1 THEN IsNaN(file.rows[i].Prior_Close)
            ELSE file.rows[i].Prior_Close = file.rows[i - 1].close

\* the downloaded trading days before day d
DaysBefore(d) == {e \in DOMAIN spx : e < d}

\* the greatest element of a non-empty set of days
MaxOf(S) == CHOOSE d \in S : \A e \in S : e <= d

\* C8 as amended: in the written table every row's Prior_Close is the close
\* of the immediately preceding downloaded trading date, which for every row
\* but the first is the row before it and for the first row is the last
\* warm-up date before start; it is missing only when the row's date is the
\* first downloaded date.
C8_PriorCloseIsPreviousDay ==
    file.written =>
        \A i \in 1..Len(file.rows) :
            LET r == file.rows[i] IN
            /\ i > 1 => r.Prior_Close = file.rows[i - 1].close
            /\ IF DaysBefore(r.date) = {} THEN IsNaN(r.Prior_Close)
               ELSE r.Prior_Close = spx[MaxOf(DaysBefore(r.date))].Close

\* a written table whose first row follows a warm-up day with another close
C8_Witness ==
    /\ file.written
    /\ Len(file.rows) >= 2
    /\ DaysBefore(file.rows[1].date) # {}
    /\ ~IsNaN(file.rows[1].Prior_Close)
    /\ file.rows[1].Prior_Close # file.rows[1].close
    /\ file.rows[2].Prior_Close = file.rows[1].close

====
